---- MODULE Spec2Model ----
(***************************************************************************)
(* bactQC/core.py: the Genome class.  One Genome instance is the state;    *)
(* every method is an operator from the instance (a record `self`) and the *)
(* files / network responses it reads to the instance it leaves behind,    *)
(* whether it raised, and the I/O events it issued.  Actions apply these   *)
(* operators to the variables.                                             *)
(*                                                                         *)
(* Python dicts are functions whose DOMAIN is the set of keys present;     *)
(* the empty dict is <<>>.  Strings that the code splits or searches are   *)
(* sequences of tokens; None and '' are the empty sequence.                *)
(* Fractions (abundance, q30 rate) are in percent, coverage in hundredths. *)
(***************************************************************************)
EXTENDS Integers, Sequences, FiniteSets, TLC

VARIABLES sample_names, qc_data, qc_results, qc_requirements, taxid_cache,
          cache_lock, checkm_data, cache_file,
          run_pc, run_idx, run_status, failed_at,
          last_call, ncalls, nruns, results_df, thresholds_df, history,
          pc, t_sample, t_taxid, t_data, t_requests, t_error, fetch_log, nstarted

vars == <<sample_names, qc_data, qc_results, qc_requirements, taxid_cache,
          cache_lock, checkm_data, cache_file,
          run_pc, run_idx, run_status, failed_at,
          last_call, ncalls, nruns, results_df, thresholds_df, history,
          pc, t_sample, t_taxid, t_data, t_requests, t_error, fetch_log, nstarted>>

(***************************************************************************)
(* Bounds of the model                                                     *)
(***************************************************************************)
MaxCalls == 2
MaxRuns == 1
MaxThreadCalls == 3

(***************************************************************************)
(* Default thresholds of run() and of the checks                           *)
(***************************************************************************)
min_primary_abundance == 60
min_completeness == 80
max_contamination == 10
maximum_contigs == 500
minimum_n50 == 15000
min_q30_bases == 85
min_coverage == 30

(***************************************************************************)
(* dict helpers                                                            *)
(***************************************************************************)
Put(d, k, v) == [x \in (DOMAIN d) \cup {k} |-> IF x = k THEN v ELSE d[x]]

Has(d, k) == k \in DOMAIN d

NoEvents == <<>>

Count(events, e) == Cardinality({i \in DOMAIN events : events[i] = e})

\* error is the exception class the call raised, "" when it returned
Outcome(self, error, events) ==
    [self |-> self, raised |-> error # "", error |-> error, events |-> events]

\* The exception a file in a given state makes its reader raise
FileError(kind) ==
    CASE kind = "missing" -> "FileNotFoundError"
      [] kind \in {"no_column", "empty", "rows", "no_files", "no_bin_id"} -> "ValueError"
      [] kind = "bad_json" -> "JSONDecodeError"
      [] kind = "missing_key" -> "KeyError"
      [] kind = "unreadable" -> "ParserError"
      [] OTHER -> ""

\* "if sample_name not in self.qc_data: ..." and the two siblings
EnsureSample(self, s) ==
    [self EXCEPT
       !.qc_data = IF Has(self.qc_data, s) THEN @ ELSE Put(@, s, [sample |-> s]),
       !.qc_results = IF Has(self.qc_results, s) THEN @ ELSE Put(@, s, <<>>),
       !.qc_requirements = IF Has(self.qc_requirements, s) THEN @ ELSE Put(@, s, <<>>)]

SetData(self, s, k, v) ==
    [self EXCEPT !.qc_data = Put(@, s, Put(@[s], k, v))]

SetResult(self, s, k, v) ==
    [self EXCEPT !.qc_results = Put(@, s, Put(@[s], k, v))]

SetRequirement(self, s, k, v) ==
    [self EXCEPT !.qc_requirements = Put(@, s, Put(@[s], k, v))]

(***************************************************************************)
(* get_expected_genome_size                                                *)
(***************************************************************************)
\* The four ways the fetch of lines 259-285 raises: requests.RequestException
\* (timeout, non-2xx), empty body, malformed XML, int(None) on a missing length.
FetchFailures == {"transport_error", "empty", "malformed", "missing_length"}

FetchError(kind) ==
    CASE kind = "transport_error" -> "RequestException"
      [] kind = "empty" -> "ValueError"
      [] kind = "malformed" -> "ParseError"
      [] kind = "missing_length" -> "TypeError"
      [] OTHER -> ""

\* What lines 259-291 make of a response: raised, or the parsed data.
\* organism_name = <<>> stands for a missing or empty <organism_name>.
ParseResponse(resp) ==
    IF resp.kind \in FetchFailures
    THEN [raised |-> TRUE, error |-> FetchError(resp.kind), data |-> resp.data]
    ELSE IF resp.data.organism_name = <<>>
         THEN [raised |-> TRUE, error |-> "ValueError", data |-> resp.data]
         ELSE [raised |-> FALSE, error |-> "", data |-> resp.data]

\* A fetch whose result is not kept
CacheInsertForgets(cache, taxid, data) == cache

\* taxid_cache after a successful fetch (line 289)
CacheInsert(cache, taxid, data) == Put(cache, taxid, data)

\* One whole call with nobody else holding cache_lock.  abund is the
\* bracken.adjusted.abundances.txt of the sample, resp the answer the service
\* would give if asked.
get_expected_genome_size(self, s, abund, resp) ==
    LET s1 == EnsureSample(self, s)
        ev == <<"get_expected_genome_size">>
    IN  IF abund.kind # "ok"
        THEN Outcome(s1, FileError(abund.kind), ev)
        ELSE IF Has(s1.taxid_cache, abund.taxid)
        THEN Outcome(SetData(s1, s, "genome_size", s1.taxid_cache[abund.taxid]),
                     "", ev)
        ELSE LET got == ParseResponse(resp)
             IN  IF got.raised
                 THEN Outcome(s1, got.error, Append(ev, "GET genome_size"))
                 ELSE Outcome(
                        SetData([s1 EXCEPT !.taxid_cache =
                                    CacheInsert(@, abund.taxid, got.data)],
                                s, "genome_size", got.data),
                        "", Append(ev, "GET genome_size"))

(***************************************************************************)
(* get_assembly_size                                                       *)
(***************************************************************************)
get_assembly_size(self, s, asm) ==
    LET s1 == EnsureSample(self, s)
        ev == <<"get_assembly_size">>
    IN  IF asm.kind # "ok"
        THEN Outcome(s1, FileError(asm.kind), ev)
        ELSE Outcome(SetData(s1, s, "assembly_size",
                             [total_length |-> asm.row.total_contig_length]),
                     "", ev)

(***************************************************************************)
(* check_fastp                                                             *)
(***************************************************************************)
\* round(p / q, 2) in hundredths, q > 0.  A tie that the double p/q holds
\* exactly (p/q an odd multiple of 1/8) rounds half to even; any other tie
\* is decided by the side on which the nearest double falls (up).
Round2(p, q, up) ==
    LET n == 100 * p
        fl == n \div q
        rem2 == 2 * (n % q)
    IN  IF rem2 < q THEN fl
        ELSE IF rem2 > q THEN fl + 1
        ELSE IF (8 * p) % q = 0
             THEN (IF fl % 2 = 0 THEN fl ELSE fl + 1)
             ELSE (IF up THEN fl + 1 ELSE fl)

\* coverage = bases / total_length (lines 619-625) for total_length = 0 under
\* IEEE division (numpy scalar denominator): inf, or nan for 0 / 0.
ZeroDivCoverage(bases) ==
    IF bases > 0 THEN [kind |-> "inf", h |-> 0] ELSE [kind |-> "nan", h |-> 0]

\* fastp_results['coverage'] (line 628)
Coverage(bases, total_length, up) ==
    IF total_length = 0
    THEN ZeroDivCoverage(bases)
    ELSE [kind |-> "finite", h |-> Round2(bases, total_length, up)]

\* The comparison with >= in place of >
PassedCoverageInclusive(bases, total_length, min_cov) ==
    IF total_length = 0
    THEN bases > 0
    ELSE bases >= min_cov * total_length

\* coverage > min_coverage on the unrounded quotient (line 634)
PassedCoverage(bases, total_length, min_cov) ==
    IF total_length = 0
    THEN bases > 0
    ELSE bases > min_cov * total_length

\* fastp: the fastp.json of the sample; asm: the assembler tsv, read only if
\* assembly_size is not there yet; zerodiv: "raise" when the division of line
\* 619 by a zero total_length raises ZeroDivisionError (Python number), "ieee"
\* when it yields inf/nan (numpy scalar, as pandas hands out).
check_fastp(self, s, min_q30, min_cov, fastp, asm, zerodiv, up) ==
    LET s1 == EnsureSample(self, s)
    IN  IF fastp.kind # "ok"
        THEN Outcome(s1, FileError(fastp.kind), NoEvents)
        ELSE LET sized == IF Has(s1.qc_data[s], "assembly_size")
                          THEN Outcome(s1, "", NoEvents)
                          ELSE get_assembly_size(s1, s, asm)
             IN  IF sized.raised
                 THEN sized
                 ELSE LET s2 == sized.self
                          total == s2.qc_data[s].assembly_size.total_length
                          bases == fastp.post_filt_total_bases
                          q30ok == fastp.post_filt_q30_rate > min_q30
                          covok == PassedCoverage(bases, total, min_cov)
                          res == [post_filt_total_bases |-> bases,
                                  post_filt_q30_rate |-> fastp.post_filt_q30_rate,
                                  coverage |-> Coverage(bases, total, up),
                                  passed_q30_bases |-> q30ok,
                                  passed_coverage |-> covok,
                                  passed_fastp_QC |-> q30ok /\ covok]
                      IN  IF total = 0 /\ zerodiv = "raise"
                          THEN Outcome(s2, "ZeroDivisionError", sized.events)
                          ELSE Outcome(
                                 SetRequirement(
                                   SetResult(SetData(s2, s, "fastp", res),
                                             s, "fastp", res.passed_fastp_QC),
                                   s, "fastp",
                                   [min_q30_bases |-> min_q30,
                                    min_coverage |-> min_cov]),
                                 "", sized.events)

(***************************************************************************)
(* overall_qc                                                              *)
(***************************************************************************)
\* all(bool(value) for every value recorded in qc_results[sample])
AllRecorded(r) == \A k \in DOMAIN r : r[k]

overall_qc(self, s) ==
    IF ~Has(self.qc_results, s)
    THEN Outcome(self, "KeyError", NoEvents)
    ELSE Outcome(SetResult(self, s, "overall", AllRecorded(self.qc_results[s])),
                 "", NoEvents)

(***************************************************************************)
(* check_bracken                                                           *)
(***************************************************************************)
NoSecondary == <<"No", "secondary", "abundance", ">", "1%">>

\* name.split()[0] if name else ''
Genus(name) == IF name # <<>> THEN Head(name) ELSE ""

\* A conflict for any two differing genera
GenusConflictAnyPair(primary, secondary) ==
    secondary # NoSecondary /\ Genus(primary) # Genus(secondary)

\* lines 372-381
GenusConflict(primary, secondary) ==
    LET has_secondary_species == secondary # NoSecondary
        primary_genus == Genus(primary)
        secondary_genus == Genus(secondary)
        is_ecoli_or_shigella ==
            {"Escherichia", "Shigella"} = {primary_genus, secondary_genus}
    IN  IF has_secondary_species /\ is_ecoli_or_shigella
        THEN primary_genus # secondary_genus
        ELSE FALSE

\* The comparison with >= in place of >
PassedBrackenInclusive(abundance, min_abundance) == abundance >= min_abundance

\* line 363
PassedBracken(abundance, min_abundance) == abundance > min_abundance

check_bracken(self, s, min_abundance, bracken) ==
    LET s1 == EnsureSample(self, s)
    IN  IF bracken.kind # "ok"
        THEN Outcome(s1, FileError(bracken.kind), NoEvents)
        ELSE LET row == bracken.row
                 res == [bracken_primary_species |-> row.bracken_primary_species,
                         bracken_secondary_species |-> row.bracken_secondary_species,
                         bracken_primary_species_abundance |->
                             row.bracken_primary_species_abundance,
                         passed_bracken_QC |->
                             PassedBracken(row.bracken_primary_species_abundance,
                                           min_abundance),
                         primary_abundance_requirement |-> min_abundance,
                         genus_conflict |->
                             GenusConflict(row.bracken_primary_species,
                                           row.bracken_secondary_species)]
             IN  Outcome(
                   SetRequirement(
                     SetResult(SetData(s1, s, "bracken", res),
                               s, "bracken", res.passed_bracken_QC),
                     s, "bracken", [min_primary_abundance |-> min_abundance]),
                   "", NoEvents)

(***************************************************************************)
(* check_mlst                                                              *)
(***************************************************************************)
NoGenus == "None"

Gap == <<"-">>

\* The fixed record of lines 443-445
Untypeable ==
    [scheme |-> Gap, ST |-> Gap, allele1 |-> Gap, allele2 |-> Gap,
     allele3 |-> Gap, allele4 |-> Gap, allele5 |-> Gap, allele6 |-> Gap,
     allele7 |-> Gap]

\* The test on the first two allele columns instead (fields 4 and 5)
NoAllelesInAlleleColumns(row) == Len(row) >= 5 /\ row[4] = Gap /\ row[5] = Gap

\* line 442: mlst_result.iloc[0, 1] == '-' and mlst_result.iloc[0, 2] == '-'
\* (0-based columns 1 and 2 are fields 2 and 3 of the row)
NoAllelesDetected(row) == row[2] = Gap /\ row[3] = Gap

\* str.contains: needle occurs in hay
IsInfix(needle, hay) ==
    \E i \in 1..(Len(hay) - Len(needle) + 1) :
        SubSeq(hay, i, i + Len(needle) - 1) = needle

\* lines 471-485
PassedMlst(scheme, scheme_species_map, expected_genus) ==
    LET matched_schemes ==
            {r.SCHEME : r \in {x \in scheme_species_map : x.GENUS = expected_genus}}
    IN  /\ matched_schemes # {}
        /\ \E alt \in matched_schemes : IsInfix(alt, scheme)

\* lines 457-469: the table in use, the local copy afterwards, what was issued
\* A load that goes to the network whether or not there is a local copy
LoadSchemeMapAlwaysDownloading(cache_file_, download) ==
    IF download.kind = "ok"
    THEN [raised |-> FALSE, table |-> download.table,
          file |-> <<download.table>>, events |-> <<"GET scheme_species_map">>]
    ELSE [raised |-> TRUE, table |-> {},
          file |-> cache_file_, events |-> <<"GET scheme_species_map">>]

\* lines 458-468
LoadSchemeMap(cache_file_, download) ==
    IF cache_file_ = <<>>
    THEN IF download.kind = "ok"
         THEN [raised |-> FALSE, table |-> download.table,
               file |-> <<download.table>>, events |-> <<"GET scheme_species_map">>]
         ELSE [raised |-> TRUE, table |-> {},
               file |-> cache_file_, events |-> <<"GET scheme_species_map">>]
    ELSE [raised |-> FALSE, table |-> cache_file_[1],
          file |-> cache_file_, events |-> <<"read scheme_species_map">>]

\* A derivation that resolves the genome size whether or not it is needed
DeriveGenusAlwaysResolving(self, s, expected_genus, abund, resp) ==
    LET got == get_expected_genome_size(self, s, abund, resp)
    IN  [out |-> IF got.raised
                 THEN Outcome(got.self, "ValueError", got.events)
                 ELSE got,
         genus |-> IF expected_genus # NoGenus THEN expected_genus
                   ELSE IF got.raised THEN NoGenus
                   ELSE Head(got.self.qc_data[s].genome_size.organism_name)]

\* lines 408-425: the genus to expect and the instance after deriving it
DeriveGenus(self, s, expected_genus, abund, resp) ==
    IF expected_genus # NoGenus
    THEN [out |-> Outcome(self, "", NoEvents), genus |-> expected_genus]
    ELSE IF Has(self.qc_data[s], "genome_size")
            /\ self.qc_data[s].genome_size.organism_name # <<>>
         THEN [out |-> Outcome(self, "", NoEvents),
               genus |-> Head(self.qc_data[s].genome_size.organism_name)]
         ELSE LET got == get_expected_genome_size(self, s, abund, resp)
              IN  [out |-> IF got.raised
                           THEN Outcome(got.self, "ValueError", got.events)
                           ELSE got,
                   genus |-> IF got.raised THEN NoGenus
                             ELSE Head(got.self.qc_data[s].genome_size.organism_name)]

check_mlst(self, s, expected_genus, abund, resp, mlst, download) ==
    LET s1 == EnsureSample(self, s)
        derived == DeriveGenus(s1, s, expected_genus, abund, resp)
        s2 == derived.out.self
        ev == derived.out.events
    IN  IF derived.out.raised THEN derived.out
        ELSE IF mlst.kind # "ok" THEN Outcome(s2, FileError(mlst.kind), ev)
        ELSE IF Len(mlst.row) < 3 THEN Outcome(s2, "IndexError", ev)
        ELSE IF NoAllelesDetected(mlst.row)
        THEN Outcome(
               SetRequirement(
                 SetResult(SetData(s2, s, "mlst", Untypeable), s, "mlst", FALSE),
                 s, "mlst", [expected_genus |-> "-"]),
               "", ev)
        ELSE IF Len(mlst.row) # 10 THEN Outcome(s2, "ValueError", ev)
        ELSE LET map == LoadSchemeMap(s2.cache_file, download)
                 s3 == [s2 EXCEPT !.cache_file = map.file]
                 row == mlst.row
                 res == [scheme |-> row[2], ST |-> row[3], allele1 |-> row[4],
                         allele2 |-> row[5], allele3 |-> row[6],
                         allele4 |-> row[7], allele5 |-> row[8],
                         allele6 |-> row[9], allele7 |-> row[10],
                         passed_mlst |->
                             PassedMlst(row[2], map.table, derived.genus)]
             IN  IF map.raised THEN Outcome(s3, "URLError", ev \o map.events)
                 ELSE Outcome(
                        SetRequirement(
                          SetResult(SetData(s3, s, "mlst", res),
                                    s, "mlst", res.passed_mlst),
                          s, "mlst", [expected_genus |-> derived.genus]),
                        "", ev \o map.events)

(***************************************************************************)
(* _load_checkm_data, check_checkm                                         *)
(***************************************************************************)
\* checkm: what the search under bactopia-runs finds; checkm_data is <<>>
\* for None and <<table>> once loaded.
load_checkm_data(self, checkm) ==
    IF self.checkm_data # <<>>
    THEN Outcome(self, "", NoEvents)
    ELSE IF checkm.kind # "ok"
    THEN Outcome(self, FileError(checkm.kind), <<"load checkm.tsv">>)
    ELSE Outcome([self EXCEPT !.checkm_data = <<checkm.table>>],
                 "", <<"load checkm.tsv">>)

check_checkm(self, s, min_compl, max_contam, checkm) ==
    LET s1 == EnsureSample(self, s)
        loaded == load_checkm_data(s1, checkm)
        s2 == loaded.self
    IN  IF loaded.raised THEN loaded
        ELSE LET table == s2.checkm_data[1]
             IN  IF ~Has(table.rows, s) \/ ~table.has_columns
                 THEN Outcome(s2, "ValueError", loaded.events)
                 ELSE LET row == table.rows[s]
                          res == [Completeness |-> row.Completeness,
                                  Contamination |-> row.Contamination,
                                  completeness_requirement |-> min_compl,
                                  contamination_requirement |-> max_contam,
                                  passed_completeness |->
                                      row.Completeness > min_compl,
                                  passed_contamination |->
                                      row.Contamination < max_contam,
                                  passed_checkm_QC |->
                                      /\ row.Completeness > min_compl
                                      /\ row.Contamination < max_contam]
                      IN  Outcome(
                            SetRequirement(
                              SetResult(SetData(s2, s, "checkm", res),
                                        s, "checkm", res.passed_checkm_QC),
                              s, "checkm",
                              [max_contamination |-> max_contam,
                               min_completeness |-> min_compl]),
                            "", loaded.events)

(***************************************************************************)
(* check_assembly_scan                                                     *)
(***************************************************************************)
\* line 547
\* The closed interval in place of the open one
PassedGenomeSizeClosed(total_length, min_length, max_length) ==
    (total_length >= min_length) /\ (total_length <= max_length)

\* line 547
PassedGenomeSize(total_length, min_length, max_length) ==
    (total_length > min_length) /\ (total_length < max_length)

check_assembly_scan(self, s, max_contigs, min_n50, abund, resp, asm) ==
    LET s1 == EnsureSample(self, s)
        sized == IF Has(s1.qc_data[s], "genome_size")
                 THEN Outcome(s1, "", NoEvents)
                 ELSE get_expected_genome_size(s1, s, abund, resp)
        s2 == sized.self
    IN  IF sized.raised THEN sized
        ELSE IF asm.kind # "ok" THEN Outcome(s2, FileError(asm.kind), sized.events)
        ELSE LET data == s2.qc_data[s].genome_size
                 row == asm.row
                 passed_contigs == row.total_contig < max_contigs
                 passed_N50 == row.n50_contig_length > min_n50
                 passed_genome_size ==
                     PassedGenomeSize(row.total_contig_length,
                                      data.minimum_ungapped_length,
                                      data.maximum_ungapped_length)
                 res == [total_contig |-> row.total_contig,
                         n50_contig_length |-> row.n50_contig_length,
                         total_contig_length |-> row.total_contig_length,
                         passed_contigs |-> passed_contigs,
                         passed_N50 |-> passed_N50,
                         organism_name |-> data.organism_name,
                         species_taxid |-> data.species_taxid,
                         expected_ungapped_length |-> data.expected_ungapped_length,
                         minimum_ungapped_length |-> data.minimum_ungapped_length,
                         maximum_ungapped_length |-> data.maximum_ungapped_length,
                         passed_genome_size |-> passed_genome_size,
                         passed_assembly_scan |->
                             passed_contigs /\ passed_N50 /\ passed_genome_size]
             IN  Outcome(
                   SetRequirement(
                     SetResult(SetData(s2, s, "assembly_scan", res),
                               s, "assembly_scan", res.passed_assembly_scan),
                     s, "assembly_scan",
                     [maximum_contigs |-> max_contigs,
                      minimum_n50 |-> min_n50,
                      minimum_ungapped_length |-> data.minimum_ungapped_length,
                      maximum_ungapped_length |-> data.maximum_ungapped_length]),
                   "", sized.events)

(***************************************************************************)
(* get_qc_results                                                          *)
(***************************************************************************)
qc_columns == {"bracken", "mlst", "checkm", "assembly_scan", "fastp", "overall"}

NotAvailable == <<"N/A">>

\* The returned DataFrame: one row per sample with a non-empty qc_results
\* entry, in the order of sample_names; a result column exists when some row
\* has the key, and a row without it gets NaN, replaced by False (line 701).
get_qc_results(self) ==
    LET listed(s) == Has(self.qc_results, s) /\ DOMAIN self.qc_results[s] # {}
        included == SelectSeq(self.sample_names, listed)
        columns == qc_columns \cap
                   UNION {DOMAIN self.qc_results[included[i]] : i \in DOMAIN included}
        row(s) ==
            [c \in columns \cup {"sample", "Detected species (Bracken)",
                                 "Detected species (Mash)"} |->
               IF c = "sample" THEN s
               ELSE IF c = "Detected species (Bracken)"
                    THEN (IF Has(self.qc_data[s], "bracken")
                          THEN self.qc_data[s].bracken.bracken_primary_species
                          ELSE NotAvailable)
               ELSE IF c = "Detected species (Mash)"
                    THEN (IF Has(self.qc_data[s], "genome_size")
                          THEN self.qc_data[s].genome_size.organism_name
                          ELSE NotAvailable)
               ELSE IF Has(self.qc_results[s], c)
                    THEN self.qc_results[s][c]
                    ELSE FALSE]
    IN  [i \in DOMAIN included |-> row(included[i])]

(***************************************************************************)
(* get_qc_thresholds                                                       *)
(***************************************************************************)
SampleColumn == <<"sample", "">>

NaN == "NaN"

\* The columns <<check, parameter>> of one sample's flattened requirements
Flattened(req) == UNION {{<<c, k>> : k \in DOMAIN req[c]} : c \in DOMAIN req}

ThresholdRows(self, samples) ==
    LET included == SelectSeq(self.sample_names, LAMBDA s : s \in samples)
        req(s) == IF Has(self.qc_requirements, s)
                  THEN self.qc_requirements[s] ELSE <<>>
        columns == UNION {Flattened(req(included[i])) : i \in DOMAIN included}
        row(s) ==
            [c \in columns \cup {SampleColumn} |->
               IF c = SampleColumn THEN s
               ELSE IF c \in Flattened(req(s)) THEN req(s)[c[1]][c[2]]
               ELSE NaN]
    IN  [i \in DOMAIN included |-> row(included[i])]

\* A table that lists every sample of the batch
get_qc_thresholds_of_all(self) ==
    ThresholdRows(self, {self.sample_names[i] : i \in DOMAIN self.sample_names})

\* The returned DataFrame: one row per sample with a non-empty
\* qc_requirements entry (lines 723-725), in the order of sample_names, a
\* column per <check>_<parameter> some row has, NaN where a row lacks it
get_qc_thresholds(self) ==
    ThresholdRows(self,
        {s \in DOMAIN self.qc_requirements : DOMAIN self.qc_requirements[s] # {}})

(***************************************************************************)
(* The instance, and the files and responses the model draws on            *)
(***************************************************************************)
Self ==
    [sample_names |-> sample_names, qc_data |-> qc_data,
     qc_results |-> qc_results, qc_requirements |-> qc_requirements,
     taxid_cache |-> taxid_cache, checkm_data |-> checkm_data,
     cache_file |-> cache_file]

Commit(self) ==
    /\ sample_names' = self.sample_names
    /\ qc_data' = self.qc_data
    /\ qc_results' = self.qc_results
    /\ qc_requirements' = self.qc_requirements
    /\ taxid_cache' = self.taxid_cache
    /\ checkm_data' = self.checkm_data
    /\ cache_file' = self.cache_file

Threads == {"T1", "T2"}

Taxids == {"562", "1280"}

Ecoli == <<"Escherichia", "coli">>

Saureus == <<"Staphylococcus", "aureus">>

\* GenomeSizeReference contents, lengths in units of 500 kb
SizeData(name, taxid, min_length, max_length) ==
    [organism_name |-> name, species_taxid |-> taxid,
     expected_ungapped_length |-> (min_length + max_length) \div 2,
     minimum_ungapped_length |-> min_length,
     maximum_ungapped_length |-> max_length]

EcoliSize == SizeData(Ecoli, "562", 9, 11)

AbundFiles ==
    {[kind |-> k, taxid |-> "562"] : k \in {"missing", "no_column", "empty"}}
    \cup {[kind |-> "ok", taxid |-> t] : t \in Taxids}

\* Responses of the genome-size service carrying one of the given data
Responses(sizes) ==
    {[kind |-> k, data |-> EcoliSize] : k \in FetchFailures}
    \cup {[kind |-> "xml", data |-> d] : d \in sizes}

AsmRow(contigs, n50, total) ==
    [total_contig |-> contigs, n50_contig_length |-> n50,
     total_contig_length |-> total]

AsmFiles(rows) ==
    {[kind |-> k, row |-> AsmRow(0, 0, 0)] : k \in {"missing", "rows"}}
    \cup {[kind |-> "ok", row |-> r] : r \in rows}

FastpFiles(bases, rates) ==
    {[kind |-> k, post_filt_total_bases |-> 0, post_filt_q30_rate |-> 0] :
        k \in {"missing", "bad_json", "missing_key"}}
    \cup {[kind |-> "ok", post_filt_total_bases |-> b, post_filt_q30_rate |-> r] :
            b \in bases, r \in rates}

BrackenRow(abundance, primary, secondary) ==
    [bracken_primary_species_abundance |-> abundance,
     bracken_primary_species |-> primary,
     bracken_secondary_species |-> secondary]

BrackenFiles(rows) ==
    {[kind |-> k, row |-> BrackenRow(0, Ecoli, NoSecondary)] :
        k \in {"missing", "rows"}}
    \cup {[kind |-> "ok", row |-> r] : r \in rows}

MlstRow(scheme, st, a1, a2) ==
    <<<<"sample.fna">>, scheme, st, a1, a2, <<"gyrB(4)">>, <<"icd(8)">>,
      <<"mdh(8)">>, <<"purA(8)">>, <<"recA(2)">>>>

MlstFiles(rows) ==
    {[kind |-> k, row |-> <<>>] : k \in {"missing", "rows"}}
    \cup {[kind |-> "ok", row |-> r] : r \in rows}

SchemeMap ==
    {[GENUS |-> "Escherichia", SCHEME |-> <<"ecoli">>],
     [GENUS |-> "Staphylococcus", SCHEME |-> <<"saureus">>]}

Downloads(tables) ==
    {[kind |-> "fail", table |-> {}]} \cup {[kind |-> "ok", table |-> m] : m \in tables}

CheckmTable(has_columns, rows) == [has_columns |-> has_columns, rows |-> rows]

CheckmFiles(tables) ==
    {[kind |-> k, table |-> CheckmTable(TRUE, <<>>)] :
        k \in {"no_files", "unreadable", "no_bin_id"}}
    \cup {[kind |-> "ok", table |-> m] : m \in tables}

(***************************************************************************)
(* Inputs of the instance model (Spec, SpecBatch)                          *)
(***************************************************************************)
NoNameSize == SizeData(<<>>, "562", 9, 11)

Shigella == <<"Shigella", "flexneri">>

Narrow(files) == {f \in files : f.kind \in {"missing", "ok"}}

SomeAbundFiles == {f \in AbundFiles : f.kind \in {"missing", "ok"} /\ f.taxid = "562"}

SomeResponses == {r \in Responses({EcoliSize}) : r.kind \in {"transport_error", "xml"}}

SomeAsmFiles == Narrow(AsmFiles({AsmRow(250, 20000, 10), AsmRow(250, 20000, 11)}))

SomeFastpFiles == Narrow(FastpFiles({300, 400}, {90}))

SomeBrackenFiles ==
    Narrow(BrackenFiles({BrackenRow(95, Ecoli, Shigella),
                          BrackenRow(60, Ecoli, NoSecondary)}))

TypedRow == MlstRow(<<"ecoli", "_achtman_4">>, <<"10">>, <<"adk(10)">>, <<"fumC(11)">>)

SomeMlstFiles == Narrow(MlstFiles({TypedRow, <<<<"sample.fna">>, Gap, Gap>>}))

SomeDownloads == Downloads({SchemeMap})

CheckmRows(present, contamination) ==
    [s \in present |-> [Completeness |-> 99, Contamination |-> contamination]]

SomeCheckmFiles ==
    {f \in CheckmFiles({CheckmTable(TRUE, CheckmRows({"s1"}, 1))}) :
        f.kind \in {"no_files", "ok"}}

SomeGenera == {NoGenus, "Escherichia"}

(***************************************************************************)
(* Direct calls of the public methods                                      *)
(***************************************************************************)
ThreadsIdle ==
    UNCHANGED <<cache_lock, pc, t_sample, t_taxid, t_data, t_requests, t_error,
                fetch_log, nstarted>>

RunIdle == UNCHANGED <<run_pc, run_idx, run_status, failed_at, nruns>>

\* history[s]: the methods executed for sample s so far, in order (the
\* method called and, after it, the loaders and the I/O it went through);
\* history[""] holds what run() executes before its loop
Executed(h, s, op, out) ==
    LET done == IF out.events # <<>> /\ Head(out.events) = op
                THEN out.events
                ELSE <<op>> \o out.events
    IN  Put(h, s, (IF Has(h, s) THEN h[s] ELSE <<>>) \o done)

\* What the last step did: the method, its sample, the expected_genus it
\* was given and the typing row it read (check_mlst only), the exception it
\* raised and the I/O it issued
CallRecord(op, s, args, out) ==
    [op |-> op, sample |-> s, args |-> args, raised |-> out.raised,
     error |-> out.error, events |-> out.events]

NoArgs == [genus |-> "", row |-> <<>>]

NoCall(op) == CallRecord(op, "", NoArgs, Outcome(<<>>, "", NoEvents))

CallWith(op, s, args, out) ==
    /\ run_pc = "idle"
    /\ ncalls < MaxCalls
    /\ Commit(out.self)
    /\ last_call' = CallRecord(op, s, args, out)
    /\ ncalls' = ncalls + 1
    /\ history' = Executed(history, s, op, out)
    /\ UNCHANGED <<results_df, thresholds_df>>
    /\ RunIdle
    /\ ThreadsIdle

Call(op, s, out) == CallWith(op, s, NoArgs, out)

CallGetExpectedGenomeSize(samples, abunds, resps) ==
    \E s \in samples, abund \in abunds, resp \in resps :
        Call("get_expected_genome_size", s,
             get_expected_genome_size(Self, s, abund, resp))

CallGetAssemblySize(samples, asms) ==
    \E s \in samples, asm \in asms :
        Call("get_assembly_size", s, get_assembly_size(Self, s, asm))

CallCheckBracken(samples, brackens, minima) ==
    \E s \in samples, bracken \in brackens, m \in minima :
        Call("check_bracken", s, check_bracken(Self, s, m, bracken))

CallCheckMlst(samples, genera, abunds, resps, mlsts, downloads) ==
    \E s \in samples, g \in genera, abund \in abunds, resp \in resps,
       mlst \in mlsts, download \in downloads :
        CallWith("check_mlst", s, [genus |-> g, row |-> mlst.row],
                 check_mlst(Self, s, g, abund, resp, mlst, download))

CallCheckCheckm(samples, checkms) ==
    \E s \in samples, checkm \in checkms :
        Call("check_checkm", s,
             check_checkm(Self, s, min_completeness, max_contamination, checkm))

CallCheckAssemblyScan(samples, abunds, resps, asms) ==
    \E s \in samples, abund \in abunds, resp \in resps, asm \in asms :
        Call("check_assembly_scan", s,
             check_assembly_scan(Self, s, maximum_contigs, minimum_n50,
                                 abund, resp, asm))

CallCheckFastp(samples, fastps, asms, minima, zerodivs, ups) ==
    \E s \in samples, fastp \in fastps, asm \in asms, m \in minima,
       zerodiv \in zerodivs, up \in ups :
        Call("check_fastp", s,
             check_fastp(Self, s, min_q30_bases, m, fastp, asm, zerodiv, up))

CallOverallQc(samples) ==
    \E s \in samples : Call("overall_qc", s, overall_qc(Self, s))

CallGetQcResults ==
    /\ run_pc = "idle"
    /\ ncalls < MaxCalls
    /\ results_df' = get_qc_results(Self)
    /\ UNCHANGED <<thresholds_df, history>>
    /\ last_call' = NoCall("get_qc_results")
    /\ ncalls' = ncalls + 1
    /\ UNCHANGED <<sample_names, qc_data, qc_results, qc_requirements,
                   taxid_cache, checkm_data, cache_file>>
    /\ RunIdle
    /\ ThreadsIdle

CallGetQcThresholds ==
    /\ run_pc = "idle"
    /\ ncalls < MaxCalls
    /\ thresholds_df' = get_qc_thresholds(Self)
    /\ last_call' = NoCall("get_qc_thresholds")
    /\ ncalls' = ncalls + 1
    /\ UNCHANGED <<sample_names, qc_data, qc_results, qc_requirements,
                   taxid_cache, checkm_data, cache_file, results_df, history>>
    /\ RunIdle
    /\ ThreadsIdle

(***************************************************************************)
(* run(): line 65, then per sample lines 69-71 and the try block, one      *)
(* action per statement of the block; a step that raises runs the except   *)
(* clause (lines 91-93) and the loop moves on                              *)
(***************************************************************************)
Current == sample_names[run_idx]

\* The loop after the current sample is finished
NextSample ==
    IF run_idx < Len(sample_names)
    THEN /\ run_idx' = run_idx + 1
         /\ run_pc' = "init"
         /\ run_status' = run_status
    ELSE /\ run_idx' = run_idx
         /\ run_pc' = "idle"
         /\ run_status' = "returned"

\* Variants of the except clause: one that records nothing, one that drops
\* what the sample's earlier checks recorded
ExceptRecordsNothing(self, s) == self

ExceptClearsResults(self, s) ==
    [self EXCEPT !.qc_results = Put(@, s, [overall |-> FALSE])]

\* lines 91-93
Except(self, s) == SetResult(self, s, "overall", FALSE)

\* A try block that goes on with the next statement after an error
StepWithoutAbandoning(op, next, args, out) ==
    /\ run_pc = op
    /\ last_call' = CallRecord(op, Current, args, out)
    /\ Commit(IF out.raised THEN Except(out.self, Current) ELSE out.self)
    /\ failed_at' = IF out.raised THEN [failed_at EXCEPT ![Current] = op]
                    ELSE failed_at
    /\ IF next = "done"
       THEN NextSample
       ELSE /\ run_pc' = next
            /\ UNCHANGED <<run_idx, run_status>>
    /\ history' = Executed(history, Current, op, out)
    /\ UNCHANGED <<ncalls, nruns, results_df, thresholds_df>>
    /\ ThreadsIdle

\* One statement of the try block: on success control moves to `next`
StepWith(op, next, args, out) ==
    /\ run_pc = op
    /\ last_call' = CallRecord(op, Current, args, out)
    /\ IF out.raised
       THEN /\ Commit(Except(out.self, Current))
            /\ failed_at' = [failed_at EXCEPT ![Current] = op]
            /\ NextSample
       ELSE /\ Commit(out.self)
            /\ failed_at' = failed_at
            /\ IF next = "done"
               THEN NextSample
               ELSE /\ run_pc' = next
                    /\ UNCHANGED <<run_idx, run_status>>
    /\ history' = Executed(history, Current, op, out)
    /\ UNCHANGED <<ncalls, nruns, results_df, thresholds_df>>
    /\ ThreadsIdle

Step(op, next, out) == StepWith(op, next, NoArgs, out)

RunLoadCheckm(checkms, max_runs) ==
    /\ run_pc = "idle"
    /\ nruns < max_runs
    /\ \E checkm \in checkms :
         LET out == load_checkm_data(Self, checkm)
         IN  /\ Commit(out.self)
             /\ last_call' = CallRecord("_load_checkm_data", "", NoArgs, out)
             /\ history' = Executed(history, "", "_load_checkm_data", out)
             /\ IF out.raised
                THEN /\ run_status' = "raised"
                     /\ UNCHANGED <<run_pc, run_idx>>
                ELSE IF sample_names = <<>>
                THEN /\ run_status' = "returned"
                     /\ UNCHANGED <<run_pc, run_idx>>
                ELSE /\ run_status' = "running"
                     /\ run_pc' = "init"
                     /\ run_idx' = 1
    /\ nruns' = nruns + 1
    /\ failed_at' = [s \in DOMAIN failed_at |-> "none"]
    /\ UNCHANGED <<ncalls, results_df, thresholds_df>>
    /\ ThreadsIdle

\* An initialisation that keeps the data a sample already has
RunInitSampleKeepingData ==
    /\ run_pc = "init"
    /\ qc_data' = IF Has(qc_data, Current) THEN qc_data
                  ELSE Put(qc_data, Current, [sample |-> Current])
    /\ qc_results' = Put(qc_results, Current, <<>>)
    /\ qc_requirements' = Put(qc_requirements, Current, <<>>)
    /\ run_pc' = "get_expected_genome_size"
    /\ last_call' = NoCall("run")
    /\ UNCHANGED <<sample_names, taxid_cache, checkm_data, cache_file, run_idx,
                   run_status, failed_at, ncalls, nruns, results_df,
                   thresholds_df, history>>
    /\ ThreadsIdle

\* lines 67-71
RunInitSample ==
    /\ run_pc = "init"
    /\ qc_data' = Put(qc_data, Current, [sample |-> Current])
    /\ qc_results' = Put(qc_results, Current, <<>>)
    /\ qc_requirements' = Put(qc_requirements, Current, <<>>)
    /\ run_pc' = "get_expected_genome_size"
    /\ last_call' = NoCall("run")
    /\ UNCHANGED <<sample_names, taxid_cache, checkm_data, cache_file, run_idx,
                   run_status, failed_at, ncalls, nruns, results_df,
                   thresholds_df, history>>
    /\ ThreadsIdle

RunGetExpectedGenomeSize(abunds, resps) ==
    \E abund \in abunds, resp \in resps :
        Step("get_expected_genome_size", "get_assembly_size",
             get_expected_genome_size(Self, Current, abund, resp))

RunGetAssemblySize(asms) ==
    \E asm \in asms :
        Step("get_assembly_size", "check_bracken",
             get_assembly_size(Self, Current, asm))

RunCheckBracken(brackens) ==
    \E bracken \in brackens :
        Step("check_bracken", "check_mlst",
             check_bracken(Self, Current, min_primary_abundance, bracken))

\* lines 80-82
RunCheckMlst(abunds, resps, mlsts, downloads) ==
    \E abund \in abunds, resp \in resps, mlst \in mlsts, download \in downloads :
        LET expected_genus == Head(qc_data[Current].genome_size.organism_name)
        IN  StepWith("check_mlst", "check_checkm",
                     [genus |-> expected_genus, row |-> mlst.row],
                     check_mlst(Self, Current, expected_genus, abund, resp, mlst,
                                download))

RunCheckCheckm(checkms) ==
    \E checkm \in checkms :
        Step("check_checkm", "check_assembly_scan",
             check_checkm(Self, Current, min_completeness, max_contamination,
                          checkm))

RunCheckAssemblyScan(abunds, resps, asms) ==
    \E abund \in abunds, resp \in resps, asm \in asms :
        Step("check_assembly_scan", "check_fastp",
             check_assembly_scan(Self, Current, maximum_contigs, minimum_n50,
                                 abund, resp, asm))

RunCheckFastp(fastps, asms, zerodivs, ups) ==
    \E fastp \in fastps, asm \in asms, zerodiv \in zerodivs, up \in ups :
        Step("check_fastp", "overall_qc",
             check_fastp(Self, Current, min_q30_bases, min_coverage, fastp, asm,
                         zerodiv, up))

RunOverallQc ==
    Step("overall_qc", "done", overall_qc(Self, Current))

(***************************************************************************)
(* Construction (__init__) and the specifications                          *)
(***************************************************************************)
InitWith(names, local_copies) ==
    /\ sample_names = names
    /\ qc_data = <<>>
    /\ qc_results = <<>>
    /\ qc_requirements = <<>>
    /\ taxid_cache = <<>>
    /\ cache_lock = "free"
    /\ checkm_data = <<>>
    /\ cache_file \in local_copies
    /\ run_pc = "idle"
    /\ run_idx = 1
    /\ run_status = "none"
    /\ failed_at = [i \in {names[j] : j \in DOMAIN names} |-> "none"]
    /\ last_call = NoCall("__init__")
    /\ ncalls = 0
    /\ nruns = 0
    /\ results_df = <<>>
    /\ thresholds_df = <<>>
    /\ history = <<>>
    /\ pc = [t \in Threads |-> "idle"]
    /\ t_sample = [t \in Threads |-> ""]
    /\ t_taxid = [t \in Threads |-> ""]
    /\ t_data = [t \in Threads |-> EcoliSize]
    /\ t_requests = [t \in Threads |-> 0]
    /\ t_error = [t \in Threads |-> ""]
    /\ fetch_log = [x \in Taxids |-> <<>>]
    /\ nstarted = 0

\* Genome(sample_name="s1"): a one-sample instance, every method callable
Init == InitWith(<<"s1">>, {<<>>})

One == {"s1"}

\* Both outcomes of a division by a zero total_length (see check_fastp)
ZeroDivs == {"raise", "ieee"}

Next ==
    \/ CallGetExpectedGenomeSize(One, SomeAbundFiles, SomeResponses)
    \/ CallGetAssemblySize(One, SomeAsmFiles)
    \/ CallCheckBracken(One, SomeBrackenFiles, {min_primary_abundance})
    \/ CallCheckMlst(One, SomeGenera, SomeAbundFiles, SomeResponses, SomeMlstFiles,
                     SomeDownloads)
    \/ CallCheckCheckm(One, SomeCheckmFiles)
    \/ CallCheckAssemblyScan(One, SomeAbundFiles, SomeResponses, SomeAsmFiles)
    \/ CallCheckFastp(One, SomeFastpFiles, SomeAsmFiles, {min_coverage}, ZeroDivs, {TRUE})
    \/ CallOverallQc(One)
    \/ CallGetQcResults
    \/ CallGetQcThresholds
    \/ RunLoadCheckm(SomeCheckmFiles, MaxRuns)
    \/ RunInitSample
    \/ RunGetExpectedGenomeSize(SomeAbundFiles, SomeResponses)
    \/ RunGetAssemblySize(SomeAsmFiles)
    \/ RunCheckBracken(SomeBrackenFiles)
    \/ RunCheckMlst(SomeAbundFiles, SomeResponses, SomeMlstFiles, SomeDownloads)
    \/ RunCheckCheckm(SomeCheckmFiles)
    \/ RunCheckAssemblyScan(SomeAbundFiles, SomeResponses, SomeAsmFiles)
    \/ RunCheckFastp(SomeFastpFiles, SomeAsmFiles, ZeroDivs, {TRUE})
    \/ RunOverallQc

Spec == Init /\ [][Next]_vars

(***************************************************************************)
(* A batch: Genome() over an input directory with two samples, one run()   *)
(* of the fresh instance and the results table                             *)
(***************************************************************************)
BatchCheckmFiles ==
    {f \in CheckmFiles({CheckmTable(TRUE, CheckmRows({"s1", "s2"}, 1)),
                        CheckmTable(TRUE, CheckmRows({"s1"}, 10))}) :
        f.kind \in {"no_files", "ok"}}

BatchAbundFiles == {f \in AbundFiles : f.kind \in {"missing", "ok"}}

InitBatch == InitWith(<<"s1", "s2">>, {<<>>, <<SchemeMap>>})

NextBatch ==
    \/ RunLoadCheckm(BatchCheckmFiles, 1)
    \/ RunInitSample
    \/ RunGetExpectedGenomeSize(BatchAbundFiles, SomeResponses)
    \/ RunGetAssemblySize(SomeAsmFiles)
    \/ RunCheckBracken(SomeBrackenFiles)
    \/ RunCheckMlst(BatchAbundFiles, SomeResponses, SomeMlstFiles, SomeDownloads)
    \/ RunCheckCheckm(BatchCheckmFiles)
    \/ RunCheckAssemblyScan(BatchAbundFiles, SomeResponses, SomeAsmFiles)
    \/ RunCheckFastp(SomeFastpFiles, SomeAsmFiles, ZeroDivs, {TRUE})
    \/ RunOverallQc
    \/ CallGetQcResults
    \/ CallGetQcThresholds

SpecBatch == InitBatch /\ [][NextBatch]_vars

(***************************************************************************)
(* get_expected_genome_size called from several threads on one instance:   *)
(* the same lines as the operator above, cut where another thread can run. *)
(* pc: idle -> acquire -> lookup -> (fetch ->) release -> store -> idle.   *)
(* fetch_log[taxid] lists, in the order of the critical sections, whether  *)
(* the call hit the cache, fetched ("ok") or failed to fetch ("fail").     *)
(***************************************************************************)
InstanceIdle ==
    UNCHANGED <<sample_names, checkm_data, cache_file, run_pc, run_idx,
                run_status, failed_at, last_call, ncalls, nruns, results_df,
                thresholds_df, history>>

\* The critical section of `with self.cache_lock` (lines 250-291)
InSection(t) == pc[t] \in {"lookup", "fetch", "release"}

Logged(taxid, what) == [fetch_log EXCEPT ![taxid] = Append(@, what)]

\* lines 219-247: the sample's dicts, the taxid from the abundance file
ThreadBegin(t, s, abund) ==
    /\ pc[t] = "idle"
    /\ nstarted < MaxThreadCalls
    /\ nstarted' = nstarted + 1
    /\ LET s1 == EnsureSample(Self, s)
       IN  /\ qc_data' = s1.qc_data
           /\ qc_results' = s1.qc_results
           /\ qc_requirements' = s1.qc_requirements
    /\ t_sample' = [t_sample EXCEPT ![t] = s]
    /\ t_requests' = [t_requests EXCEPT ![t] = 0]
    /\ IF abund.kind # "ok"
       THEN /\ t_error' = [t_error EXCEPT ![t] = FileError(abund.kind)]
            /\ UNCHANGED <<pc, t_taxid>>
       ELSE /\ t_error' = [t_error EXCEPT ![t] = ""]
            /\ t_taxid' = [t_taxid EXCEPT ![t] = abund.taxid]
            /\ pc' = [pc EXCEPT ![t] = "acquire"]
    /\ UNCHANGED <<taxid_cache, cache_lock, t_data, fetch_log>>
    /\ InstanceIdle

\* Entering the with block without waiting for the lock
ThreadAcquireUnlocked(t) ==
    /\ pc[t] = "acquire"
    /\ cache_lock' = t
    /\ pc' = [pc EXCEPT ![t] = "lookup"]
    /\ UNCHANGED <<qc_data, qc_results, qc_requirements, taxid_cache, t_sample,
                   t_taxid, t_data, t_requests, t_error, fetch_log, nstarted>>
    /\ InstanceIdle

\* line 250: with self.cache_lock
ThreadAcquire(t) ==
    /\ pc[t] = "acquire"
    /\ cache_lock = "free"
    /\ cache_lock' = t
    /\ pc' = [pc EXCEPT ![t] = "lookup"]
    /\ UNCHANGED <<qc_data, qc_results, qc_requirements, taxid_cache, t_sample,
                   t_taxid, t_data, t_requests, t_error, fetch_log, nstarted>>
    /\ InstanceIdle

\* lines 251-253: if taxid in self.taxid_cache
ThreadLookup(t) ==
    /\ pc[t] = "lookup"
    /\ IF Has(taxid_cache, t_taxid[t])
       THEN /\ t_data' = [t_data EXCEPT ![t] = taxid_cache[t_taxid[t]]]
            /\ pc' = [pc EXCEPT ![t] = "release"]
            /\ fetch_log' = Logged(t_taxid[t], "hit")
       ELSE /\ pc' = [pc EXCEPT ![t] = "fetch"]
            /\ UNCHANGED <<t_data, fetch_log>>
    /\ UNCHANGED <<qc_data, qc_results, qc_requirements, taxid_cache, cache_lock,
                   t_sample, t_taxid, t_requests, t_error, nstarted>>
    /\ InstanceIdle

\* A fetch whose failure leaves the lock held
ThreadFetchKeepingLock(t, resp) ==
    /\ pc[t] = "fetch"
    /\ t_requests' = [t_requests EXCEPT ![t] = @ + 1]
    /\ LET got == ParseResponse(resp)
       IN  IF got.raised
           THEN /\ t_error' = [t_error EXCEPT ![t] = got.error]
                /\ pc' = [pc EXCEPT ![t] = "idle"]
                /\ fetch_log' = Logged(t_taxid[t], "fail")
                /\ UNCHANGED <<taxid_cache, t_data, cache_lock>>
           ELSE /\ taxid_cache' = CacheInsert(taxid_cache, t_taxid[t], got.data)
                /\ t_data' = [t_data EXCEPT ![t] = got.data]
                /\ pc' = [pc EXCEPT ![t] = "release"]
                /\ fetch_log' = Logged(t_taxid[t], "ok")
                /\ UNCHANGED <<t_error, cache_lock>>
    /\ UNCHANGED <<qc_data, qc_results, qc_requirements, t_sample, t_taxid,
                   nstarted>>
    /\ InstanceIdle

\* lines 255-291: the request, the parse and the insert; an exception leaves
\* the with block, which releases the lock
ThreadFetch(t, resp) ==
    /\ pc[t] = "fetch"
    /\ t_requests' = [t_requests EXCEPT ![t] = @ + 1]
    /\ LET got == ParseResponse(resp)
       IN  IF got.raised
           THEN /\ t_error' = [t_error EXCEPT ![t] = got.error]
                /\ cache_lock' = "free"
                /\ pc' = [pc EXCEPT ![t] = "idle"]
                /\ fetch_log' = Logged(t_taxid[t], "fail")
                /\ UNCHANGED <<taxid_cache, t_data>>
           ELSE /\ taxid_cache' = CacheInsert(taxid_cache, t_taxid[t], got.data)
                /\ t_data' = [t_data EXCEPT ![t] = got.data]
                /\ pc' = [pc EXCEPT ![t] = "release"]
                /\ fetch_log' = Logged(t_taxid[t], "ok")
                /\ UNCHANGED <<t_error, cache_lock>>
    /\ UNCHANGED <<qc_data, qc_results, qc_requirements, t_sample, t_taxid,
                   nstarted>>
    /\ InstanceIdle

\* the end of the with block
ThreadRelease(t) ==
    /\ pc[t] = "release"
    /\ cache_lock' = "free"
    /\ pc' = [pc EXCEPT ![t] = "store"]
    /\ UNCHANGED <<qc_data, qc_results, qc_requirements, taxid_cache, t_sample,
                   t_taxid, t_data, t_requests, t_error, fetch_log, nstarted>>
    /\ InstanceIdle

\* line 293
ThreadStore(t) ==
    /\ pc[t] = "store"
    /\ qc_data' = SetData(Self, t_sample[t], "genome_size", t_data[t]).qc_data
    /\ pc' = [pc EXCEPT ![t] = "idle"]
    /\ UNCHANGED <<qc_results, qc_requirements, taxid_cache, cache_lock, t_sample,
                   t_taxid, t_data, t_requests, t_error, fetch_log, nstarted>>
    /\ InstanceIdle

SaureusSize == SizeData(Saureus, "1280", 5, 7)

ThreadResponses == Responses({EcoliSize, SaureusSize, NoNameSize})

NextThreads ==
    \/ \E t \in Threads, s \in {"s1", "s2"}, abund \in AbundFiles :
           ThreadBegin(t, s, abund)
    \/ \E t \in Threads : ThreadAcquire(t)
    \/ \E t \in Threads : ThreadLookup(t)
    \/ \E t \in Threads, resp \in ThreadResponses : ThreadFetch(t, resp)
    \/ \E t \in Threads : ThreadRelease(t)
    \/ \E t \in Threads : ThreadStore(t)

InitThreads == InitWith(<<"s1", "s2">>, {<<>>})

SpecThreads == InitThreads /\ [][NextThreads]_vars

(***************************************************************************)
(* The typing check over every shape of typing row and reference table     *)
(***************************************************************************)
TypingRows ==
    {MlstRow(scheme, st, alleles[1], alleles[2]) :
        scheme \in {Gap, <<"ecoli", "_achtman_4">>}, st \in {Gap, <<"10">>},
        alleles \in {<<Gap, Gap>>, <<<<"adk(10)">>, <<"fumC(11)">>>>}}
    \cup {MlstRow(<<"ecoli", "_achtman_4">>, <<"10">>, Gap, <<"fumC(11)">>),
          <<<<"sample.fna">>, Gap, Gap>>, <<<<"sample.fna">>, Gap>>}

ReferenceTables ==
    {SchemeMap, {}, {[GENUS |-> "Escherichia", SCHEME |-> Gap]}}

Genera == {NoGenus, "Escherichia", "Staphylococcus"}

InitMlst == InitWith(<<"s1">>, {<<>>} \cup {<<m>> : m \in ReferenceTables})

NextMlst ==
    \/ CallGetExpectedGenomeSize(One, SomeAbundFiles, SomeResponses)
    \/ CallCheckMlst(One, Genera, SomeAbundFiles, SomeResponses,
                     MlstFiles(TypingRows), Downloads(ReferenceTables))

SpecMlst == InitMlst /\ [][NextMlst]_vars

(***************************************************************************)
(* The read-quality check over assembly lengths, base counts and minima    *)
(***************************************************************************)
MaxLength == 201

MaxBases == 2

MaxMinCoverage == 1

\* Total lengths: none, one base, a length whose quotients tie exactly in
\* binary (1/8), and the two largest, whose quotients fall within half a
\* hundredth of an integer
Lengths == {0, 1, 8} \cup {MaxLength - 1, MaxLength}

LengthFiles == Narrow(AsmFiles({AsmRow(250, 20000, n) : n \in Lengths}))

BaseFiles == Narrow(FastpFiles(0..MaxBases, {80, 90}))

NextFastp ==
    \/ CallGetAssemblySize(One, LengthFiles)
    \/ CallCheckFastp(One, BaseFiles, LengthFiles, 0..MaxMinCoverage,
                      ZeroDivs, BOOLEAN)

SpecFastp == Init /\ [][NextFastp]_vars

(***************************************************************************)
(* The assembly check over genome-size references and assembly lengths     *)
(***************************************************************************)
MaxGenomeLength == 3

GenomeSizes ==
    {SizeData(Ecoli, "562", lo, hi) :
        lo \in 0..MaxGenomeLength, hi \in 0..MaxGenomeLength}

GenomeSizeResponses ==
    {r \in Responses(GenomeSizes) : r.kind \in {"transport_error", "xml"}}

AssemblyFiles ==
    Narrow(AsmFiles({AsmRow(c, n, len) :
                        c \in {250, 500}, n \in {15000, 20000},
                        len \in 0..MaxGenomeLength}))

NextAssembly ==
    \/ CallGetExpectedGenomeSize(One, SomeAbundFiles, GenomeSizeResponses)
    \/ CallCheckAssemblyScan(One, SomeAbundFiles, GenomeSizeResponses,
                             AssemblyFiles)

SpecAssembly == Init /\ [][NextAssembly]_vars

(***************************************************************************)
(* The abundance check over organism names, abundances and minima          *)
(***************************************************************************)
MaxAbundance == 3

MaxMinAbundance == 2

OrganismNames ==
    {Ecoli, Shigella, Saureus, <<"Escherichia", "albertii">>, <<"Shigella">>,
     <<"Staphylococcus", "Shigella">>, <<>>}

AbundanceRows ==
    {BrackenRow(a, primary, secondary) :
        a \in 0..MaxAbundance, primary \in OrganismNames,
        secondary \in OrganismNames \cup {NoSecondary}}

NextBracken ==
    CallCheckBracken(One, Narrow(BrackenFiles(AbundanceRows)), 0..MaxMinAbundance)

SpecBracken == Init /\ [][NextBracken]_vars

(***************************************************************************)
(* run() and direct calls of the dependent checks on one instance          *)
(***************************************************************************)
NextLoaders ==
    \/ CallCheckMlst(One, SomeGenera, SomeAbundFiles, SomeResponses, SomeMlstFiles,
                     SomeDownloads)
    \/ CallCheckAssemblyScan(One, SomeAbundFiles, SomeResponses, SomeAsmFiles)
    \/ CallCheckFastp(One, SomeFastpFiles, SomeAsmFiles, {min_coverage}, {"ieee"},
                      {TRUE})
    \/ RunLoadCheckm(SomeCheckmFiles, 1)
    \/ RunInitSample
    \/ RunGetExpectedGenomeSize(SomeAbundFiles, SomeResponses)
    \/ RunGetAssemblySize(SomeAsmFiles)
    \/ RunCheckBracken(SomeBrackenFiles)
    \/ RunCheckMlst(SomeAbundFiles, SomeResponses, SomeMlstFiles, SomeDownloads)
    \/ RunCheckCheckm(SomeCheckmFiles)
    \/ RunCheckAssemblyScan(SomeAbundFiles, SomeResponses, SomeAsmFiles)
    \/ RunCheckFastp(SomeFastpFiles, SomeAsmFiles, {"ieee"}, {TRUE})
    \/ RunOverallQc

SpecLoaders == Init /\ [][NextLoaders]_vars

(***************************************************************************)
(* Properties                                                              *)
(***************************************************************************)
Checks == {"bracken", "mlst", "checkm", "assembly_scan", "fastp"}

Returned(op) == last_call.op = op /\ ~last_call.raised

\* The row of a results table for a sample, as a set (empty when missing)
RowsOf(df, s) == {df[i] : i \in {j \in DOMAIN df : df[j].sample = s}}

\* C1: whenever overall_qc(sample) has run, qc_results[sample]['overall'] is
\* true iff all five per-check results are recorded for the sample and true
\* (an absent check counts as false).
C1_OverallIffAllFiveRecordedTrue ==
    Returned("overall_qc") =>
        LET r == qc_results[last_call.sample]
        IN  r.overall = (\A c \in Checks : Has(r, c) /\ r[c])

\* The samples whose processing in run() raised
FailedSamples == {s \in DOMAIN failed_at : failed_at[s] # "none"}

ReportedFailed(df, s) ==
    /\ RowsOf(df, s) # {}
    /\ \A row \in RowsOf(df, s) : Has(row, "overall") /\ ~row.overall

\* C2: a sample whose processing in run() raised is not fatal to run(), has
\* overall = False recorded, and has a row with overall = False in what
\* get_qc_results() returns.
C2_FailedSampleIsolatedAndReported ==
    \A s \in FailedSamples :
        /\ run_status \in {"running", "returned"}
        /\ Has(qc_results[s], "overall") /\ ~qc_results[s].overall
        /\ ReportedFailed(get_qc_results(Self), s)
        /\ (last_call.op = "get_qc_results" => ReportedFailed(results_df, s))

C2_Witness ==
    /\ run_status = "returned"
    /\ failed_at["s2"] = "check_checkm"
    /\ last_call.op = "get_qc_results"
    /\ ReportedFailed(results_df, "s2")

\* C3 as claimed: after an error every per-check result of the sample is
\* absent or false, in qc_results and in the results table.
C3_AllChecksAbsentOrFalse ==
    \A s \in FailedSamples :
        /\ \A c \in Checks : ~Has(qc_results[s], c) \/ ~qc_results[s][c]
        /\ \A row \in RowsOf(get_qc_results(Self), s) :
               \A c \in Checks : Has(row, c) => ~row[c]

StepOrder ==
    <<"get_expected_genome_size", "get_assembly_size", "check_bracken",
      "check_mlst", "check_checkm", "check_assembly_scan", "check_fastp",
      "overall_qc">>

Position(step) == CHOOSE i \in DOMAIN StepOrder : StepOrder[i] = step

StepOf ==
    [bracken |-> "check_bracken", mlst |-> "check_mlst", checkm |-> "check_checkm",
     assembly_scan |-> "check_assembly_scan", fastp |-> "check_fastp"]

\* The verdict inside the record a check stored in qc_data
Verdict(data, c) ==
    CASE c = "bracken" -> data.passed_bracken_QC
      [] c = "mlst" -> Has(data, "passed_mlst") /\ data.passed_mlst
      [] c = "checkm" -> data.passed_checkm_QC
      [] c = "assembly_scan" -> data.passed_assembly_scan
      [] c = "fastp" -> data.passed_fastp_QC

\* C3, amended: after an error overall is false; the result of the step that
\* raised and of every later step is absent (false in the results table);
\* the result of every check that completed before the error is kept as it
\* was computed.
C3_LaterChecksAbsentEarlierKept ==
    \A s \in FailedSamples :
        LET r == qc_results[s]
            k == Position(failed_at[s])
        IN  /\ ~r.overall
            /\ \A c \in Checks :
                 IF Position(StepOf[c]) < k
                 THEN Has(r, c) /\ r[c] = Verdict(qc_data[s][c], c)
                 ELSE /\ ~Has(r, c)
                      /\ \A row \in RowsOf(get_qc_results(Self), s) :
                             Has(row, c) => ~row[c]

C3_Witness ==
    /\ run_status = "returned"
    /\ failed_at["s1"] = "check_mlst"
    /\ qc_results["s1"].bracken
    /\ ~qc_results["s1"].overall

\* The calls for a taxonomic ID that resolved it (returned its data)
Resolving(log) == {i \in DOMAIN log : log[i] \in {"ok", "hit"}}

\* C4: for every taxonomic ID, the calls of get_expected_genome_size that
\* resolve it issue exactly one network request in total once there are two
\* of them: the first one fetches, every later one is served from
\* taxid_cache without a request.
C4_ResolvedTwiceFetchedOnce ==
    \A x \in Taxids :
        LET log == fetch_log[x]
        IN  Cardinality(Resolving(log)) >= 2 =>
              /\ Cardinality({i \in Resolving(log) : log[i] = "ok"}) = 1
              /\ \A i, j \in Resolving(log) : i < j => log[j] = "hit"

C4_Witness ==
    /\ fetch_log["562"] = <<"ok", "hit">>
    /\ \A t \in Threads : pc[t] = "idle" /\ t_error[t] = ""
    /\ t_sample["T1"] # t_sample["T2"]
    /\ Has(qc_data["s1"], "genome_size") /\ Has(qc_data["s2"], "genome_size")

\* At most one thread inside the section, and it holds the lock
MutualExclusion ==
    /\ \A t1, t2 \in Threads : InSection(t1) /\ InSection(t2) => t1 = t2
    /\ \A t \in Threads : InSection(t) => cache_lock = t
    /\ \A t1, t2 \in Threads :
           pc[t1] = "fetch" /\ pc[t2] = "fetch" => t1 = t2
    /\ \A x \in Taxids :
           Cardinality({i \in DOMAIN fetch_log[x] : fetch_log[x][i] = "ok"}) <= 1

NoOverwrite ==
    \A x \in DOMAIN taxid_cache :
        Has(taxid_cache', x) /\ taxid_cache'[x] = taxid_cache[x]

\* C5: the check-then-fetch-then-insert on taxid_cache is mutually exclusive:
\* at most one thread is inside it and that thread holds cache_lock, no
\* taxonomic ID is fetched into the cache twice, and no cache entry is ever
\* removed or overwritten.
C5_CacheSectionExclusive == [](MutualExclusion) /\ [][NoOverwrite]_vars

C5_Witness ==
    /\ pc["T1"] = "fetch"
    /\ pc["T2"] = "acquire"
    /\ t_taxid["T1"] = t_taxid["T2"]
    /\ cache_lock = "T1"

RecordedUntypeable ==
    /\ Returned("check_mlst")
    /\ qc_data[last_call.sample].mlst = Untypeable
    /\ ~qc_results[last_call.sample].mlst

\* C6 as claimed: check_mlst records the untypeable placeholder with a false
\* verdict iff the first two allele fields of the row are both '-'.
C6_PlaceholderIffAllelesGap ==
    Returned("check_mlst") =>
        LET row == last_call.args.row
        IN  RecordedUntypeable <=> (Len(row) >= 5 /\ row[4] = Gap /\ row[5] = Gap)

\* C6, amended: check_mlst records the untypeable placeholder with a false
\* verdict iff the scheme and ST fields of the row (its second and third
\* columns) are both '-', whatever the alleles and the reference table.
C6_PlaceholderIffSchemeAndStGap ==
    Returned("check_mlst") =>
        LET row == last_call.args.row
        IN  RecordedUntypeable <=> (row[2] = Gap /\ row[3] = Gap)

C6_Witness ==
    /\ RecordedUntypeable
    /\ last_call.args.row = <<<<"sample.fna">>, Gap, Gap>>
    /\ cache_file = <<{[GENUS |-> "Escherichia", SCHEME |-> Gap]}>>
    /\ last_call.args.genus = "Escherichia"

Network == {"GET genome_size", "GET scheme_species_map"}

\* C7 as claimed: a check_mlst call that ends in the untypeable branch has
\* issued no network request.
C7_UntypeableWithoutNetwork ==
    RecordedUntypeable => \A e \in Network : Count(last_call.events, e) = 0

\* One step, when it is a check_mlst call ending in the untypeable branch
C7_Untypeable ==
    RecordedUntypeable' =>
        LET ev == last_call'.events
            s == last_call'.sample
        IN  /\ Count(ev, "GET scheme_species_map") = 0
            /\ Count(ev, "read scheme_species_map") = 0
            /\ cache_file' = cache_file
            /\ Count(ev, "GET genome_size") <= 1
            /\ Count(ev, "GET genome_size") = 1 =>
                 /\ last_call'.args.genus = NoGenus
                 /\ ~(Has(qc_data, s) /\ Has(qc_data[s], "genome_size"))
                 /\ DOMAIN taxid_cache' # DOMAIN taxid_cache

\* C7, amended: a check_mlst call that ends in the untypeable branch neither
\* downloads nor reads the scheme reference table and leaves the local copy
\* alone; it issues a genome-size request (one) only when expected_genus was
\* not supplied, the sample had no genome-size data before the call and the
\* taxonomic ID was not cached.
C7_UntypeableSkipsSchemeTable == [][C7_Untypeable]_vars

C7_Witness ==
    /\ RecordedUntypeable
    /\ last_call.args.genus = NoGenus
    /\ last_call.events = <<"get_expected_genome_size", "GET genome_size">>

\* A check_fastp call that got past reading its files
FastpComputed ==
    /\ last_call.op = "check_fastp"
    /\ last_call.error \notin {"FileNotFoundError", "JSONDecodeError",
                               "KeyError", "ValueError"}

TotalLength == qc_data[last_call.sample].assembly_size.total_length

\* C8: when the total_length of the sample is 0, check_fastp raises no
\* error, records coverage 0 and passed_coverage false, and the read-quality
\* verdict is false, for every base count and every min_coverage >= 0.
C8_ZeroLengthCoverageZero ==
    (FastpComputed /\ TotalLength = 0) =>
        LET s == last_call.sample
        IN  /\ ~last_call.raised
            /\ qc_data[s].fastp.coverage = [kind |-> "finite", h |-> 0]
            /\ ~qc_data[s].fastp.passed_coverage
            /\ ~qc_results[s].fastp

\* C9 as claimed: with total_length > 0 the recorded coverage is the
\* quotient rounded to 2 decimals and passed_coverage is true iff the
\* recorded coverage exceeds min_coverage.
C9_PassedIffRecordedCoverageAbove ==
    (Returned("check_fastp") /\ TotalLength > 0) =>
        LET s == last_call.sample
            r == qc_data[s].fastp
            m == qc_requirements[s].fastp.min_coverage
        IN  /\ r.coverage.kind = "finite"
            /\ 2 * (100 * r.post_filt_total_bases - r.coverage.h * TotalLength)
                 \in (0 - TotalLength)..TotalLength
            /\ r.passed_coverage <=> (r.coverage.h > 100 * m)

\* C9, amended: with total_length > 0 the recorded coverage is the quotient
\* rounded to 2 decimals and passed_coverage is true iff the quotient itself
\* (before rounding) exceeds min_coverage; a quotient equal to min_coverage
\* has passed_coverage false.
C9_PassedIffQuotientAbove ==
    (Returned("check_fastp") /\ TotalLength > 0) =>
        LET s == last_call.sample
            r == qc_data[s].fastp
            m == qc_requirements[s].fastp.min_coverage
        IN  /\ r.coverage.kind = "finite"
            /\ 2 * (100 * r.post_filt_total_bases - r.coverage.h * TotalLength)
                 \in (0 - TotalLength)..TotalLength
            /\ r.passed_coverage <=> (r.post_filt_total_bases > m * TotalLength)
            /\ r.post_filt_total_bases = m * TotalLength => ~r.passed_coverage
            /\ qc_results[s].fastp =
                 (r.passed_coverage /\ r.post_filt_q30_rate > min_q30_bases)

C9_Witness ==
    /\ Returned("check_fastp")
    /\ TotalLength = 1
    /\ qc_data["s1"].fastp.post_filt_total_bases = 1
    /\ qc_data["s1"].fastp.coverage.h = 100
    /\ qc_requirements["s1"].fastp.min_coverage = 1
    /\ ~qc_data["s1"].fastp.passed_coverage

\* C10: check_assembly_scan sets passed_genome_size to true iff
\* minimum_ungapped_length < total_contig_length < maximum_ungapped_length;
\* a total length equal to either bound gives passed_genome_size false and
\* a false assembly verdict.
C10_GenomeSizeOpenInterval ==
    Returned("check_assembly_scan") =>
        LET s == last_call.sample
            r == qc_data[s].assembly_scan
            ref == qc_data[s].genome_size
            lo == ref.minimum_ungapped_length
            hi == ref.maximum_ungapped_length
            len == r.total_contig_length
        IN  /\ r.minimum_ungapped_length = lo
            /\ r.maximum_ungapped_length = hi
            /\ r.passed_genome_size <=> (lo < len /\ len < hi)
            /\ len \in {lo, hi} =>
                 /\ ~r.passed_genome_size
                 /\ ~r.passed_assembly_scan
                 /\ ~qc_results[s].assembly_scan

C10_Witness ==
    /\ Returned("check_assembly_scan")
    /\ qc_data["s1"].assembly_scan.total_contig_length = 3
    /\ qc_data["s1"].assembly_scan.maximum_ungapped_length = 3
    /\ qc_data["s1"].assembly_scan.minimum_ungapped_length = 1
    /\ qc_data["s1"].assembly_scan.passed_contigs
    /\ qc_data["s1"].assembly_scan.passed_N50
    /\ ~qc_results["s1"].assembly_scan

\* The first whitespace-delimited tokens of the names that have one
FirstTokens(names) == {Head(n) : n \in {m \in names : m # <<>>}}

\* C11: check_bracken sets genus_conflict to true iff a secondary organism is
\* reported and the set of primary and secondary genus is exactly
\* {Escherichia, Shigella}; any other pair, and any row without a secondary
\* hit, gives false.
C11_ConflictIffEscherichiaShigella ==
    Returned("check_bracken") =>
        LET r == qc_data[last_call.sample].bracken
            primary == r.bracken_primary_species
            secondary == r.bracken_secondary_species
        IN  r.genus_conflict <=>
              /\ secondary # NoSecondary
              /\ primary # <<>> /\ secondary # <<>>
              /\ FirstTokens({primary, secondary}) = {"Escherichia", "Shigella"}

C11_Witness ==
    /\ Returned("check_bracken")
    /\ qc_data["s1"].bracken.bracken_primary_species = Shigella
    /\ qc_data["s1"].bracken.bracken_secondary_species = Ecoli
    /\ qc_data["s1"].bracken.genus_conflict

\* C12: check_bracken records the abundance verdict as true iff the primary
\* abundance is strictly greater than the minimum; an abundance equal to the
\* minimum gives false, and the verdict does not depend on genus_conflict.
C12_AbundanceStrictlyAboveMinimum ==
    Returned("check_bracken") =>
        LET s == last_call.sample
            r == qc_data[s].bracken
            m == qc_requirements[s].bracken.min_primary_abundance
        IN  /\ qc_results[s].bracken = (r.bracken_primary_species_abundance > m)
            /\ r.passed_bracken_QC = qc_results[s].bracken
            /\ r.primary_abundance_requirement = m

C12_Witness ==
    /\ Returned("check_bracken")
    /\ qc_data["s1"].bracken.bracken_primary_species_abundance = 2
    /\ qc_requirements["s1"].bracken.min_primary_abundance = 2
    /\ qc_data["s1"].bracken.genus_conflict
    /\ ~qc_results["s1"].bracken

\* The last step was a load of a batch-wide reference table that raised: the
\* completeness/contamination table in _load_checkm_data, or the download of
\* the genus-to-scheme table in check_mlst
ReferenceTableLoadFailed ==
    \/ last_call.op = "_load_checkm_data" /\ last_call.raised
    \/ last_call.op = "check_mlst" /\ last_call.error = "URLError"

\* C13: every error raised while loading a batch-wide reference table is
\* fatal to the batch: run() propagates it and stops, and records no
\* per-sample failure for it.
C13_ReferenceTableErrorFatal ==
    ReferenceTableLoadFailed =>
        /\ run_status = "raised"
        /\ run_pc = "idle"
        /\ \A s \in DOMAIN failed_at : failed_at[s] = "none"

\* The rows of a thresholds table for a sample
ThresholdRowsOf(df, s) == {i \in DOMAIN df : df[i][SampleColumn] = s}

BatchSamples == {sample_names[i] : i \in DOMAIN sample_names}

\* C14 as claimed: after run(), get_qc_thresholds() returns exactly one row
\* for every sample of sample_names, failed samples included.
C14_ThresholdRowForEverySample ==
    (run_status = "returned" /\ last_call.op = "get_qc_thresholds") =>
        \A s \in BatchSamples : Cardinality(ThresholdRowsOf(thresholds_df, s)) = 1

\* C14, amended: after run(), get_qc_thresholds() returns exactly one row for
\* every sample for which some check recorded its thresholds, i.e. every
\* sample that got past check_bracken, and no row for a sample that failed
\* at get_expected_genome_size, get_assembly_size or check_bracken.
C14_ThresholdRowIffSomeCheckRecorded ==
    (run_status = "returned" /\ last_call.op = "get_qc_thresholds") =>
        \A s \in BatchSamples :
            Cardinality(ThresholdRowsOf(thresholds_df, s)) =
                IF failed_at[s] \in {"get_expected_genome_size",
                                     "get_assembly_size", "check_bracken"}
                THEN 0 ELSE 1

C14_Witness ==
    /\ run_status = "returned"
    /\ last_call.op = "get_qc_thresholds"
    /\ failed_at["s1"] = "get_assembly_size"
    /\ failed_at["s2"] = "check_checkm"
    /\ Len(thresholds_df) = 1
    /\ thresholds_df[1][SampleColumn] = "s2"

Loaders == {"get_expected_genome_size", "get_assembly_size"}

DependentChecks == {"check_mlst", "check_assembly_scan", "check_fastp"}

\* The output a loader populates, and whether sample s has it
OutputOf == [get_expected_genome_size |-> "genome_size",
             get_assembly_size |-> "assembly_size"]

Populated(data, s, loader) == Has(data, s) /\ Has(data[s], OutputOf[loader])

\* The loader a dependent check needs (check_mlst only to derive the genus)
Needs(op, args) ==
    CASE op = "check_mlst" ->
           IF args.genus = NoGenus THEN {"get_expected_genome_size"} ELSE {}
      [] op = "check_assembly_scan" -> {"get_expected_genome_size"}
      [] op = "check_fastp" -> {"get_assembly_size"}
      [] OTHER -> {}

\* How many times method m was executed for sample s
Executions(h, s, m) == IF Has(h, s) THEN Count(h[s], m) ELSE 0

ExecutedOnce ==
    \A s \in DOMAIN history : \A l \in Loaders : Executions(history, s, l) <= 1

\* One step of a dependent check: it went through a loader iff the output
\* was not populated before the step
TriggeredIffMissing ==
    last_call'.op \in DependentChecks =>
        \A l \in Loaders :
            LET missing == ~Populated(qc_data, last_call'.sample, l)
                ran == Count(last_call'.events, l)
            IN  /\ ran <= 1
                /\ ran = 1 => missing
                /\ (missing /\ ~last_call'.raised
                    /\ l \in Needs(last_call'.op, last_call'.args)) => ran = 1

\* C15 as claimed: a dependent check triggers a loader exactly when its
\* output is not yet populated for the sample, and each of the two loaders
\* is executed at most once per sample over any sequence of run() and direct
\* calls.
C15_LoadersLazyAndOncePerSample == [](ExecutedOnce) /\ [][TriggeredIffMissing]_vars

\* One step, for a dependent check and for the loader steps of run()
LoaderStep ==
    LET op == last_call'.op
        s == last_call'.sample
        ev == last_call'.events
    IN  /\ op \in DependentChecks =>
              \A l \in Loaders :
                  LET missing == ~Populated(qc_data, s, l)
                  IN  /\ Count(ev, l) <= 1
                      /\ Count(ev, l) = 1 =>
                             missing /\ l \in Needs(op, last_call'.args)
                      /\ (missing /\ ~last_call'.raised
                          /\ l \in Needs(op, last_call'.args)) => Count(ev, l) = 1
                      /\ (~missing /\ run_pc = "idle") =>
                             /\ Populated(qc_data', s, l)
                             /\ qc_data'[s][OutputOf[l]] = qc_data[s][OutputOf[l]]
        /\ (op \in Loaders /\ run_pc = op) =>
              /\ Count(ev, op) = 1
              /\ ~Populated(qc_data, s, op)
              /\ Executions(history', s, op) = Executions(history, s, op) + 1

\* C15, amended: a dependent check triggers a loader, once, exactly when it
\* needs the output (check_mlst: only without expected_genus) and the output
\* is not populated for the sample at that moment, and a direct call leaves a
\* populated output as it is; run() executes both loaders for every sample
\* of every run, after clearing the sample's data, so over a sequence of
\* calls a loader can be executed more than once per sample.
C15_LoadersLazyPerCall == [][LoaderStep]_vars

C15_Witness ==
    /\ Executions(history, "s1", "get_assembly_size") = 2
    /\ last_call.op = "get_assembly_size"
    /\ ~last_call.raised
    /\ run_status = "running"

SchemeLoads(h, s) ==
    Executions(h, s, "GET scheme_species_map")
    + Executions(h, s, "read scheme_species_map")

CheckmLoads(h) == Executions(h, "", "load checkm.tsv")

\* Nothing written over a table that is there
TablesReadOnly ==
    /\ checkm_data # <<>> => checkm_data' = checkm_data
    /\ cache_file # <<>> => cache_file' = cache_file

\* C16 as claimed: during one batch run the completeness/contamination table
\* and the genus-to-scheme table are each loaded (read from disk or fetched)
\* at most once, and neither the in-memory table nor the local copy is
\* written again after the first load.
C16_EachTableLoadedOnce ==
    /\ [](/\ CheckmLoads(history) <= 1
          /\ SchemeLoads(history, "s1") + SchemeLoads(history, "s2") <= 1)
    /\ [][TablesReadOnly]_vars

\* One step of the run, as far as the reference tables go
TableStep ==
    LET ev == last_call'.events
        fetched == Count(ev, "GET scheme_species_map")
        read == Count(ev, "read scheme_species_map")
    IN  /\ TablesReadOnly
        /\ fetched + read <= 1
        /\ fetched = 1 => /\ cache_file = <<>>
                          /\ last_call'.raised <=> cache_file' = <<>>
        /\ read = 1 => cache_file # <<>>
        /\ cache_file' # cache_file => fetched = 1
        /\ Count(ev, "load checkm.tsv") = 1 =>
               /\ last_call'.op = "_load_checkm_data"
               /\ checkm_data = <<>>

\* C16, amended: during one batch run the completeness/contamination table
\* is loaded once, before the first sample, and kept; the genus-to-scheme
\* table is loaded once for every sample that reaches the scheme comparison:
\* fetched from the network while there is no local copy (again for the next
\* sample when the fetch failed), read from the local copy otherwise; the
\* local copy is written by the one successful fetch and never again.
C16_SchemeTableLoadedPerSample ==
    /\ [](/\ CheckmLoads(history) <= 1
          /\ \A s \in BatchSamples : SchemeLoads(history, s) <= 1)
    /\ [][TableStep]_vars

C16_Witness ==
    /\ run_status = "returned"
    /\ Executions(history, "s1", "GET scheme_species_map") = 1
    /\ Executions(history, "s2", "read scheme_species_map") = 1
    /\ cache_file = <<SchemeMap>>
    /\ CheckmLoads(history) = 1

\* The steps of run() executed for sample s so far, in order
StepsOf(s) ==
    IF Has(history, s)
    THEN SelectSeq(history[s],
                   LAMBDA m : \E k \in DOMAIN StepOrder : StepOrder[k] = m)
    ELSE <<>>

\* C17: in run() the steps of each sample execute in the fixed order
\* genome-size resolution, assembly-size lookup, abundance check, typing
\* check, completeness/contamination check, assembly-statistics check,
\* read-quality check, aggregation; once a step raises no later step of that
\* sample is executed, and every later sample is still processed from its
\* first step.
C17_StepsInOrderFailedSampleAbandoned ==
    \A i \in DOMAIN sample_names :
        LET s == sample_names[i]
            steps == StepsOf(s)
            n == Len(steps)
            started == run_status \in {"running", "returned"}
            finished == run_status = "returned" \/ (started /\ run_idx > i)
        IN  /\ n <= Len(StepOrder)
            /\ steps = SubSeq(StepOrder, 1, n)
            /\ failed_at[s] # "none" => (n >= 1 /\ steps[n] = failed_at[s])
            /\ finished => (n >= 1 /\ (failed_at[s] # "none" \/ n = Len(StepOrder)))
            /\ ~finished => failed_at[s] = "none"
            /\ (~started \/ (~finished /\ run_idx < i)) => n = 0

C17_Witness ==
    /\ run_status = "returned"
    /\ failed_at["s1"] = "check_bracken"
    /\ StepsOf("s1") = SubSeq(StepOrder, 1, 3)
    /\ failed_at["s2"] = "none"
    /\ StepsOf("s2") = StepOrder

\* One step: for a thread whose fetch after a cache miss fails
FailedFetch ==
    \A t \in Threads :
        (pc[t] = "fetch" /\ pc'[t] = "idle") =>
            /\ t_error'[t] # ""
            /\ t_requests[t] = 0 /\ t_requests'[t] = 1
            /\ ~Has(taxid_cache, t_taxid[t])
            /\ taxid_cache' = taxid_cache
            /\ qc_data' = qc_data
            /\ cache_lock = t /\ cache_lock' = "free"

\* The lock is held only by a thread inside the section
LockHeldInsideOnly ==
    cache_lock # "free" => (cache_lock \in Threads /\ InSection(cache_lock))

\* C18: when get_expected_genome_size fails after the cache miss, exactly one
\* network request was issued (no retry), taxid_cache is left unchanged, no
\* genome_size entry is recorded for the sample, and the cache lock is
\* released, so that a later resolution can enter the critical section.
C18_FailedFetchLeavesNothing == [](LockHeldInsideOnly) /\ [][FailedFetch]_vars

C18_Witness ==
    /\ fetch_log["562"] = <<"fail", "ok">>
    /\ t_error["T1"] = "ValueError"
    /\ pc["T1"] = "idle"
    /\ ~Has(qc_data[t_sample["T1"]], "genome_size")
    /\ pc["T2"] = "release"
    /\ cache_lock = "T2"

====
